---- MODULE Spec2Model ----
(***************************************************************************)
(* company_search.py: search -> select first link -> extract -> print.     *)
(*                                                                         *)
(* Text is modelled as a sequence of one-character strings, so that the    *)
(* URL handling of duckduckgo_search (startswith, urlparse, parse_qs,      *)
(* geturl) is computed character by character.  JSON text is modelled as   *)
(* a sequence of lexical tokens, decoded by a recursive-descent parser.    *)
(***************************************************************************)
EXTENDS Naturals, Sequences, FiniteSets

VARIABLES
    pc,           \* position of the single asyncio task
    sessions,     \* browser sessions currently open (AsyncWebCrawler contexts)
    opened,       \* opened[s]: the stage that opened session s (all sessions)
    fetches,      \* one record per crawler.arun call: stage, session used
    cssRuns,      \* number of calls of JsonCssExtractionStrategy.run
    items,        \* duckduckgo_search: items
    idx,          \* duckduckgo_search: position of the for loop in items
    acc,          \* duckduckgo_search: links (the list being built)
    links,        \* search_company: links (the resolver's return value)
    extractCalls, \* URLs extract_legal_info was called with, in call order
    result,       \* extract_legal_info: result of crawler.arun
    extRet,       \* the value extract_legal_info returned
    info,         \* main: info (the value search_company returned)
    exc,          \* exception propagating out of the task ("none" if none)
    stdout,       \* texts printed to standard output
    exitStatus,   \* process exit status (NoStatus until the process ends)
    linkIn,       \* NormSpec only: the link handed to the normalization
    linkOut       \* NormSpec only: what the normalization made of it

vars == <<pc, sessions, opened, fetches, cssRuns, items, idx, acc, links,
          extractCalls, result, extRet, info, exc, stdout, exitStatus,
          linkIn, linkOut>>

-----------------------------------------------------------------------------
(* Bounds of the model *)

\* greatest number of result entries the CSS extraction rule yields
MaxItems == 3
\* greatest number of tokens of an enumerated extracted_content text
MaxTokens == 3
\* greatest number of &-separated fields in the query of an enumerated link
MaxFields == 2

-----------------------------------------------------------------------------
(* str primitives *)

\* s.find(c, start): least index >= start holding c, 0 when there is none
\* (indices are 1-based; Python's -1 is 0 here)
RECURSIVE Find(_, _, _)
Find(s, c, start) ==
    IF start > Len(s) THEN 0
    ELSE IF s[start] = c THEN start
    ELSE Find(s, c, start + 1)

\* s.rfind(c): greatest index holding c, 0 when there is none
RECURSIVE RFindFrom(_, _, _)
RFindFrom(s, c, i) ==
    IF i = 0 THEN 0
    ELSE IF s[i] = c THEN i
    ELSE RFindFrom(s, c, i - 1)

RFind(s, c) == RFindFrom(s, c, Len(s))

\* c in s
Contains(s, c) == Find(s, c, 1) > 0

\* s.startswith(p)
StartsWith(s, p) == Len(s) >= Len(p) /\ SubSeq(s, 1, Len(p)) = p

\* s.split(c, 1): <<s>> when c is absent, else <<before, after>>
CutAt(s, i) ==
    IF i = 0 THEN <<s>>
    ELSE <<SubSeq(s, 1, i - 1), SubSeq(s, i + 1, Len(s))>>

Split1(s, c) == CutAt(s, Find(s, c, 1))

\* s.split(c)
RECURSIVE Split(_, _)
Split(s, c) ==
    IF Find(s, c, 1) = 0 THEN <<s>>
    ELSE <<CutAt(s, Find(s, c, 1))[1]>> \o Split(CutAt(s, Find(s, c, 1))[2], c)

\* s.replace(a, b) for single characters a, b
Replace(s, a, b) == [i \in 1..Len(s) |-> IF s[i] = a THEN b ELSE s[i]]

\* s.replace(c, "") for every c in cs
RECURSIVE Remove(_, _)
Remove(s, cs) ==
    IF s = <<>> THEN <<>>
    ELSE IF Head(s) \in cs THEN Remove(Tail(s), cs)
    ELSE <<Head(s)>> \o Remove(Tail(s), cs)

-----------------------------------------------------------------------------
(* urllib.parse, as used by duckduckgo_search *)

\* Optional[str]: None, or a str
None == [isNone |-> TRUE]
Some(v) == [isNone |-> FALSE, val |-> v]

\* truth value of an Optional[str]: None and "" are false
Truthy(o) == ~o.isNone /\ o.val # <<>>

HexDigits == {"0", "1", "2", "3", "4", "5", "6", "7", "8", "9",
              "a", "b", "c", "d", "e", "f", "A", "B", "C", "D", "E", "F"}

HexVal(c) ==
    CASE c = "0" -> 0  [] c = "1" -> 1  [] c = "2" -> 2  [] c = "3" -> 3
      [] c = "4" -> 4  [] c = "5" -> 5  [] c = "6" -> 6  [] c = "7" -> 7
      [] c = "8" -> 8  [] c = "9" -> 9
      [] c \in {"a", "A"} -> 10  [] c \in {"b", "B"} -> 11
      [] c \in {"c", "C"} -> 12  [] c \in {"d", "D"} -> 13
      [] c \in {"e", "E"} -> 14  [] c \in {"f", "F"} -> 15

\* the printable ASCII characters, codes 32 to 126, in code order (the grave
\* accent, code 96, is written by its code point)
Printable ==
    <<" ", "!", "\"", "#", "$", "%", "&", "'", "(", ")", "*", "+", ",", "-",
      ".", "/", "0", "1", "2", "3", "4", "5", "6", "7", "8", "9", ":", ";",
      "<", "=", ">", "?", "@", "A", "B", "C", "D", "E", "F", "G", "H", "I",
      "J", "K", "L", "M", "N", "O", "P", "Q", "R", "S", "T", "U", "V", "W",
      "X", "Y", "Z", "[", "\\", "]", "^", "_", "U+0060", "a", "b", "c", "d", "e",
      "f", "g", "h", "i", "j", "k", "l", "m", "n", "o", "p", "q", "r", "s",
      "t", "u", "v", "w", "x", "y", "z", "{", "|", "}", "~">>

\* bytes([b]).decode("utf-8", "replace") for one byte: an ASCII byte is its
\* character, a lone byte above 127 decodes to the replacement character.
\* (Multi-byte UTF-8 sequences and control characters other than tab, LF and
\* CR are not among the escapes of the links enumerated below.)
Chr(b) ==
    CASE b >= 32 /\ b <= 126 -> Printable[b - 31]
      [] b = 9 -> "\t"
      [] b = 10 -> "\n"
      [] b = 13 -> "\r"
      [] OTHER -> "U+FFFD"

\* unquote(s): every %XX with two hex digits becomes the character it
\* encodes; any other % stays as it is
RECURSIVE Unquote(_)
Unquote(s) ==
    IF s = <<>> THEN <<>>
    ELSE IF s[1] = "%" /\ Len(s) >= 3 /\ s[2] \in HexDigits /\ s[3] \in HexDigits
         THEN <<Chr(16 * HexVal(s[2]) + HexVal(s[3]))>>
              \o Unquote(SubSeq(s, 4, Len(s)))
    ELSE <<Head(s)>> \o Unquote(Tail(s))

\* parse_qsl: the pair of one field split at its first "=", if it has a
\* value that is not blank
QslPair(nv) ==
    IF Len(nv) # 2 THEN <<>>
    ELSE IF Len(nv[2]) = 0 THEN <<>>
    ELSE << <<Unquote(Replace(nv[1], "+", " ")),
              Unquote(Replace(nv[2], "+", " "))>> >>

\* parse_qsl(qs) with keep_blank_values=False, strict_parsing=False,
\* separator="&": the list of <<name, value>> pairs
RECURSIVE QslFields(_)
QslFields(fields) ==
    IF fields = <<>> THEN <<>>
    ELSE QslPair(Split1(Head(fields), "=")) \o QslFields(Tail(fields))

ParseQsl(qs) == IF qs = <<>> THEN <<>> ELSE QslFields(Split(qs, "&"))

\* the values of `name` among pairs, in order
RECURSIVE ValuesOf(_, _)
ValuesOf(pairs, name) ==
    IF pairs = <<>> THEN <<>>
    ELSE (IF Head(pairs)[1] = name THEN <<Head(pairs)[2]>> ELSE <<>>)
         \o ValuesOf(Tail(pairs), name)

\* parse_qs: the dict from each name to the list of its values
Grouped(pairs) ==
    [name \in {pairs[i][1] : i \in 1..Len(pairs)} |-> ValuesOf(pairs, name)]

\* parse_qs(qs)
ParseQs(qs) == Grouped(ParseQsl(qs))

\* d.get(key, [None])[0]
GetFirst(d, key) == IF key \in DOMAIN d THEN Some(d[key][1]) ELSE None

SchemeChars ==
    {Printable[i] : i \in 17..26} \cup {Printable[i] : i \in 34..59}
    \cup {Printable[i] : i \in 66..91} \cup {"+", "-", "."}

Alpha == {Printable[i] : i \in 34..59} \cup {Printable[i] : i \in 66..91}

\* c.lower() for the characters of a scheme
CodeOf(c) == CHOOSE k \in 1..Len(Printable) : Printable[k] = c

Lower(c) ==
    IF CodeOf(c) >= 34 /\ CodeOf(c) <= 59 THEN Printable[CodeOf(c) + 32] ELSE c

\* url.lstrip(_WHATWG_C0_CONTROL_OR_SPACE)
RECURSIVE LStrip(_)
LStrip(s) ==
    IF s # <<>> /\ Head(s) \in {" ", "\t", "\n", "\r"} THEN LStrip(Tail(s))
    ELSE s

\* the schemes of uses_netloc and uses_params that matter here
https == <<"h", "t", "t", "p", "s">>
UsesNetloc == {<<>>, https, <<"h", "t", "t", "p">>, <<"f", "t", "p">>}
UsesParams == {<<>>, https, <<"h", "t", "t", "p">>, <<"f", "t", "p">>}

Min(a, b) == IF a < b THEN a ELSE b

\* the least of the positions found (0: not found), or `none`
Earliest(i, j, k, none) ==
    Min(IF i = 0 THEN none ELSE i,
        Min(IF j = 0 THEN none ELSE j, IF k = 0 THEN none ELSE k))

\* _splitnetloc(url, 2): the netloc ends before the first of / ? #
NetlocEnd(url) ==
    Earliest(Find(url, "/", 3), Find(url, "?", 3), Find(url, "#", 3),
             Len(url) + 1)

\* `if url[:2] == '//': netloc, url = _splitnetloc(url, 2)`: <<netloc, url>>
SplitNetloc(url) ==
    IF StartsWith(url, <<"/", "/">>)
    THEN <<SubSeq(url, 3, NetlocEnd(url) - 1),
           SubSeq(url, NetlocEnd(url), Len(url))>>
    ELSE << <<>>, url>>

\* urlsplit raises ValueError("Invalid IPv6 URL") for a netloc holding one
\* kind of square bracket without the other.  (A netloc holding both is
\* checked further by the library; no enumerated link holds "]".)
BadBrackets(netloc) ==
    \/ Contains(netloc, "[") /\ ~Contains(netloc, "]")
    \/ Contains(netloc, "]") /\ ~Contains(netloc, "[")

\* the second element of a split, "" when the separator was absent
Second(parts) == IF Len(parts) = 2 THEN parts[2] ELSE <<>>

\* urlsplit, last step: `url, query = url.split('?', 1)` and the result
SplitQuery(scheme, netloc, q, fragment) ==
    [err |-> BadBrackets(netloc), scheme |-> scheme, netloc |-> netloc,
     path |-> q[1], query |-> Second(q), fragment |-> fragment]

\* urlsplit: `url, fragment = url.split('#', 1)`
SplitFragment(scheme, netloc, f) ==
    SplitQuery(scheme, netloc, Split1(f[1], "?"), Second(f))

\* urlsplit after the scheme: netloc, then fragment and query
SplitAfterScheme(scheme, url) ==
    SplitFragment(scheme, SplitNetloc(url)[1], Split1(SplitNetloc(url)[2], "#"))

\* urlsplit: the scheme is url[:i] when i is the place of the first ":" and
\* what precedes it is made of scheme characters, starting with a letter
SplitScheme(url, i) ==
    IF /\ i > 1
       /\ url[1] \in Alpha
       /\ \A k \in 1..(i - 1) : url[k] \in SchemeChars
    THEN SplitAfterScheme([k \in 1..(i - 1) |-> Lower(url[k])],
                          SubSeq(url, i + 1, Len(url)))
    ELSE SplitAfterScheme(<<>>, url)

\* the url with its leading blanks stripped and its tab, CR, LF removed
Sanitized(url) == Remove(LStrip(url), {"\t", "\r", "\n"})

\* urlsplit(url): [err, scheme, netloc, path, query, fragment]; err is TRUE
\* when urlsplit raises ValueError
UrlSplit(url) == SplitScheme(Sanitized(url), Find(Sanitized(url), ":", 1))

\* _splitparams(url): <<path, params>>, the ";" sought at i
SplitParamsAt(url, i) ==
    IF i = 0 THEN <<url, <<>> >>
    ELSE <<SubSeq(url, 1, i - 1), SubSeq(url, i + 1, Len(url))>>

SplitParams(url) ==
    SplitParamsAt(url, IF Contains(url, "/") THEN Find(url, ";", RFind(url, "/"))
                       ELSE Find(url, ";", 1))

\* ParseResult(scheme, netloc, url, params, query, fragment)
ParseResult(sp, pp) ==
    [err |-> sp.err, scheme |-> sp.scheme, netloc |-> sp.netloc,
     path |-> pp[1], params |-> pp[2], query |-> sp.query,
     fragment |-> sp.fragment]

\* urlparse after urlsplit: the params of the last path segment
WithParams(sp) ==
    IF sp.scheme \in UsesParams /\ Contains(sp.path, ";")
    THEN ParseResult(sp, SplitParams(sp.path))
    ELSE ParseResult(sp, <<sp.path, <<>> >>)

\* urlparse(url)
UrlParse(url) == WithParams(UrlSplit(url))

\* urlunsplit, last steps: scheme, query and fragment are added when not empty
AddFragment(url, fragment) ==
    IF fragment # <<>> THEN url \o <<"#">> \o fragment ELSE url

AddQuery(url, query) == IF query # <<>> THEN url \o <<"?">> \o query ELSE url

AddScheme(scheme, url) == IF scheme # <<>> THEN scheme \o <<":">> \o url ELSE url

\* urlunsplit, first step: the netloc is put before the path
AddNetloc(scheme, netloc, path) ==
    IF \/ netloc # <<>>
       \/ (scheme # <<>> /\ scheme \in UsesNetloc
           /\ ~StartsWith(path, <<"/", "/">>))
    THEN <<"/", "/">> \o netloc
         \o (IF path # <<>> /\ path[1] # "/" THEN <<"/">> ELSE <<>>) \o path
    ELSE path

\* urlunsplit((scheme, netloc, url, query, fragment))
UrlUnsplit(scheme, netloc, path, query, fragment) ==
    AddFragment(AddQuery(AddScheme(scheme, AddNetloc(scheme, netloc, path)),
                         query), fragment)

\* ParseResult.geturl(): urlunparse(parsed)
GetUrl(p) ==
    UrlUnsplit(p.scheme, p.netloc,
               IF p.params # <<>> THEN p.path \o <<";">> \o p.params ELSE p.path,
               p.query, p.fragment)

-----------------------------------------------------------------------------
(* json, as used by extract_legal_info and main *)

\* A decoded JSON value: t is its Python type, s the text of a str, v the
\* elements of a list or the <<key, value>> pairs of a dict in insertion order.
JNull == [t |-> "NoneType", s |-> "", v |-> <<>>]
JStr(tok) == [t |-> "str", s |-> tok, v |-> <<>>]
JList(elems) == [t |-> "list", s |-> "", v |-> elems]
JDict(pairs) == [t |-> "dict", s |-> "", v |-> pairs]
EmptyDict == JDict(<<>>)
Unset == [t |-> "unset", s |-> "", v |-> <<>>]

\* the string literals of the modelled texts, quotes included
StringTokens == {"\"company_name\"", "\"legal_name\"", "\"Acme Corp\"",
                 "\"Acme Inc\""}

\* what the decoder skips between tokens
Whitespace == {" ", "  ", "\n", "\t"}

RECURSIVE SkipWs(_)
SkipWs(toks) ==
    IF toks # <<>> /\ Head(toks) \in Whitespace THEN SkipWs(Tail(toks))
    ELSE toks

Fail == [ok |-> FALSE, val |-> JNull, rest |-> <<>>]
Ok(val, rest) == [ok |-> TRUE, val |-> val, rest |-> rest]

\* d[key] = val on an insertion-ordered dict
RECURSIVE DictSet(_, _, _)
DictSet(pairs, key, val) ==
    IF pairs = <<>> THEN << <<key, val>> >>
    ELSE IF Head(pairs)[1] = key THEN << <<key, val>> >> \o Tail(pairs)
    ELSE <<Head(pairs)>> \o DictSet(Tail(pairs), key, val)

RECURSIVE ParseValue(_), ParseElems(_, _), ParseMembers(_, _)

\* after an element of an array: "]" ends it, "," brings the next element
ElemsNext(done, after) ==
    IF after = <<>> THEN Fail
    ELSE IF Head(after) = "]" THEN Ok(JList(done), Tail(after))
    ELSE IF Head(after) = "," THEN ParseElems(Tail(after), done)
    ELSE Fail

\* the element e decoded at the head of an array's remaining text
ElemsAfter(e, done) ==
    IF ~e.ok THEN Fail ELSE ElemsNext(Append(done, e.val), SkipWs(e.rest))

\* the elements of an array after "[" or ",", up to and including "]"
ParseElems(toks, done) == ElemsAfter(ParseValue(toks), done)

\* an array after "[" and blanks
ParseArray(toks) ==
    IF toks # <<>> /\ Head(toks) = "]" THEN Ok(JList(<<>>), Tail(toks))
    ELSE ParseElems(toks, <<>>)

\* after a member of an object: "}" ends it, "," brings the next member
MembersNext(done, after) ==
    IF after = <<>> THEN Fail
    ELSE IF Head(after) = "}" THEN Ok(JDict(done), Tail(after))
    ELSE IF Head(after) = "," THEN ParseMembers(Tail(after), done)
    ELSE Fail

\* the value e decoded for key
MemberValue(key, e, done) ==
    IF ~e.ok THEN Fail
    ELSE MembersNext(DictSet(done, key, e.val), SkipWs(e.rest))

\* the ":" after a key, then its value
MemberColon(key, toks, done) ==
    IF toks = <<>> THEN Fail
    ELSE IF Head(toks) # ":" THEN Fail
    ELSE MemberValue(key, ParseValue(Tail(toks)), done)

\* the key of a member: a string
MemberKey(toks, done) ==
    IF toks = <<>> THEN Fail
    ELSE IF Head(toks) \notin StringTokens THEN Fail
    ELSE MemberColon(Head(toks), SkipWs(Tail(toks)), done)

\* the members of an object after "{" or ",", up to and including "}"
ParseMembers(toks, done) == MemberKey(SkipWs(toks), done)

\* an object after "{" and blanks
ParseObject(toks) ==
    IF toks # <<>> /\ Head(toks) = "}" THEN Ok(JDict(<<>>), Tail(toks))
    ELSE ParseMembers(toks, <<>>)

\* one value at the head of toks, which starts with no blank
ParseAt(toks) ==
    IF toks = <<>> THEN Fail
    ELSE IF Head(toks) = "null" THEN Ok(JNull, Tail(toks))
    ELSE IF Head(toks) \in StringTokens THEN Ok(JStr(Head(toks)), Tail(toks))
    ELSE IF Head(toks) = "[" THEN ParseArray(SkipWs(Tail(toks)))
    ELSE IF Head(toks) = "{" THEN ParseObject(SkipWs(Tail(toks)))
    ELSE Fail

\* JSONDecoder.raw_decode: one value at the head of toks, and the rest
ParseValue(toks) == ParseAt(SkipWs(toks))

\* json.loads: nothing but blanks may follow the value
Whole(r) == IF r.ok /\ SkipWs(r.rest) = <<>> THEN Ok(r.val, <<>>) ELSE Fail

\* json.loads(text): ok is FALSE when it raises JSONDecodeError (no value,
\* or extra data after the value)
Loads(text) == Whole(ParseValue(text))

\* the indentation json.dumps(indent=2) writes at nesting depth n
RECURSIVE Indent(_)
Indent(n) == IF n = 0 THEN <<>> ELSE <<"  ">> \o Indent(n - 1)

\* json.dumps(value, indent=2), written at nesting depth n
RECURSIVE DumpsAt(_, _), DumpElems(_, _), DumpMembers(_, _)
DumpsAt(val, n) ==
    CASE val.t = "NoneType" -> <<"null">>
      [] val.t = "str" -> <<val.s>>
      [] val.t = "list" ->
            IF val.v = <<>> THEN <<"[", "]">>
            ELSE <<"[", "\n">> \o DumpElems(val.v, n + 1)
                 \o <<"\n">> \o Indent(n) \o <<"]">>
      [] val.t = "dict" ->
            IF val.v = <<>> THEN <<"{", "}">>
            ELSE <<"{", "\n">> \o DumpMembers(val.v, n + 1)
                 \o <<"\n">> \o Indent(n) \o <<"}">>

DumpElems(elems, n) ==
    Indent(n) \o DumpsAt(Head(elems), n)
    \o (IF Len(elems) = 1 THEN <<>>
        ELSE <<",", "\n">> \o DumpElems(Tail(elems), n))

DumpMembers(pairs, n) ==
    Indent(n) \o <<Head(pairs)[1], ":", " ">> \o DumpsAt(Head(pairs)[2], n)
    \o (IF Len(pairs) = 1 THEN <<>>
        ELSE <<",", "\n">> \o DumpMembers(Tail(pairs), n))

Dumps(val) == DumpsAt(val, 0)

-----------------------------------------------------------------------------
(* duckduckgo_search: the link normalization *)

DoubleSlash == <<"/", "/">>
uddg == <<"u", "d", "d", "g">>

\* `link = parsed.geturl()` taken to be "https:" + link
ResolveTrusting(link, parsed, actual) ==
    IF Truthy(actual) THEN [raised |-> FALSE, link |-> actual.val]
    ELSE [raised |-> FALSE, link |-> https \o <<":">> \o link]

\* `if actual: link = actual` / `else: link = parsed.geturl()`
Resolve(link, parsed, actual) ==
    IF Truthy(actual) THEN [raised |-> FALSE, link |-> actual.val]
    ELSE [raised |-> FALSE, link |-> GetUrl(parsed)]

\* the redirect link after urlparse: ValueError goes up, or
\* `actual = parse_qs(parsed.query).get("uddg", [None])[0]` decides
Unwrap(link, parsed) ==
    IF parsed.err THEN [raised |-> TRUE, link |-> link]
    ELSE Resolve(link, parsed, GetFirst(ParseQs(parsed.query), uddg))

\* the link duckduckgo_search appends for the truthy link of an item; raised
\* is TRUE when urlparse raises ValueError
NormalizeLink(link) ==
    IF StartsWith(link, DoubleSlash)
    THEN Unwrap(link, UrlParse(https \o <<":">> \o link))
    ELSE [raised |-> FALSE, link |-> link]

-----------------------------------------------------------------------------
(* The inputs: links, result entries, extracted contents *)

\* every sequence over S of length at most n
SeqsUpTo(S, n) == UNION {[1..k -> S] : k \in 0..n}

\* "&".join(fields)
RECURSIVE Join(_)
Join(fields) ==
    IF fields = <<>> THEN <<>>
    ELSE IF Len(fields) = 1 THEN Head(fields)
    ELSE Head(fields) \o <<"&">> \o Join(Tail(fields))

LinkPrefixes == {<<>>, <<"/">>, DoubleSlash, https \o <<":", "/", "/">>}
LinkHosts == {<<>>, <<"d">>, <<"[">>}
LinkPaths == {<<>>, <<"/", "l">>, <<"/", "l", ";">>, <<"/", "l", ";", "p">>,
              <<"/", "\t", "l">>}
LinkFields ==
    {<<>>,
     uddg,
     uddg \o <<"=">>,
     uddg \o <<"=", "a", "%", "2", "F", "b">>,
     uddg \o <<"=", "c", "+", "d">>,
     uddg \o <<"=", "%">>,
     <<"%", "7", "5", "d", "d", "g", "=", "e">>,
     <<"x", "=", "1">>}
LinkQueries ==
    {<<>>} \cup {<<"?">> \o Join(f) : f \in SeqsUpTo(LinkFields, MaxFields)}
LinkFragments == {<<>>, <<"#">>, <<"#">> \o uddg \o <<"=", "f">>}

\* the links the normalization is checked on
AllLinks ==
    {p \o h \o l \o q \o f :
        p \in LinkPrefixes, h \in LinkHosts, l \in LinkPaths,
        q \in LinkQueries, f \in LinkFragments}

\* the links of the result entries of a run: a redirect link, a redirect
\* link without target whose query is empty, a plain absolute link, and a
\* redirect link urlparse rejects
RedirectLink == DoubleSlash \o <<"d", "/", "l", "?">> \o uddg
                \o <<"=", "a", "%", "2", "F", "b">>
BareRedirect == DoubleSlash \o <<"d", "/", "l", "?">>
PlainLink == https \o <<":", "/", "/", "a">>
BadLink == DoubleSlash \o <<"[">>
RunLinks == {RedirectLink, BareRedirect, PlainLink, BadLink}

\* a result entry: a dict that may hold "link" (its "title" is never read)
Item(l) == [hasLink |-> TRUE, link |-> l]
NoLinkItem == [hasLink |-> FALSE, link |-> <<>>]
RunItems == {Item(l) : l \in RunLinks \cup {<<>>}} \cup {NoLinkItem}

\* item.get("link")
GetLink(item) == IF item.hasLink THEN Some(item.link) ELSE None

\* the tokens of the enumerated extracted_content texts
ContentTokens == {"[", "]", "{", "}", ",", "null", " "}

Field1 == <<"\"company_name\"", ":", " ", "\"Acme Corp\"">>
Field2 == <<"\"legal_name\"", ":", "\"Acme Inc\"">>
LongContents ==
    {<<"{">> \o Field1 \o <<"}">>,
     <<"[", "{">> \o Field1 \o <<"}", "]">>,
     <<"[", "{">> \o Field1 \o <<"}", ",", " ", "{">> \o Field2 \o <<"}", "]">>,
     <<"[", "{">> \o Field1 \o <<",">> \o Field2 \o <<"}", ",", "null", "]">>,
     <<"[", "{">> \o Field1 \o <<"}", ",">>,
     <<"[", "[", "]", ",", "{", "}", "]">>}

\* result.extracted_content: None, or a text
Contents ==
    {None} \cup {Some(t) : t \in SeqsUpTo(ContentTokens, MaxTokens) \cup LongContents}

-----------------------------------------------------------------------------
(* The run of the program.  The company name only enters the URL of the    *)
(* search page, whose fetch is an input of the model: its success flag and  *)
(* the result entries the CSS extraction rule finds in the fetched page.    *)

NoResult == [success |-> FALSE, content |-> None]
NoOut == [raised |-> FALSE, link |-> <<>>]

\* the session of the `async with` block the task is in: the last one opened
CurSession == Len(opened)

\* AsyncWebCrawler.__aexit__ leaking the session
AExitLeaking(open, s) == open

\* AsyncWebCrawler.__aexit__: the session is released
AExit(open, s) == open \ {s}

\* the record of one crawler.arun call
Fetch(stage, ok) ==
    [stage |-> stage, session |-> CurSession, live |-> CurSession \in sessions,
     success |-> ok]

Init ==
    /\ pc = "start"
    /\ sessions = {}
    /\ opened = <<>>
    /\ fetches = <<>>
    /\ cssRuns = 0
    /\ items = <<>>
    /\ idx = 0
    /\ acc = <<>>
    /\ links = <<>>
    /\ extractCalls = <<>>
    /\ result = NoResult
    /\ extRet = Unset
    /\ info = Unset
    /\ exc = "none"
    /\ stdout = <<>>
    /\ exitStatus = "running"
    /\ linkIn = <<>>
    /\ linkOut = NoOut

\* asyncio.run(main(...)) -> search_company -> duckduckgo_search, up to the
\* entry of its `async with`: the resolver's session is opened
Start ==
    /\ pc = "start"
    /\ pc' = "ddg_arun"
    /\ opened' = Append(opened, "resolver")
    /\ sessions' = sessions \cup {Len(opened) + 1}
    /\ UNCHANGED <<fetches, cssRuns, items, idx, acc, links, extractCalls,
                   result, extRet, info, exc, stdout, exitStatus, linkIn, linkOut>>

\* the search fetch fails, and the CSS extraction rule is applied all the same
DdgFetchFailIgnored ==
    /\ pc = "ddg_arun"
    /\ fetches' = Append(fetches, Fetch("resolver", FALSE))
    /\ cssRuns' = cssRuns + 1
    /\ items' = <<>>
    /\ idx' = 1
    /\ acc' = <<>>
    /\ pc' = "ddg_loop"
    /\ UNCHANGED <<sessions, opened, links, extractCalls, result, extRet, info,
                   exc, stdout, exitStatus, linkIn, linkOut>>

\* duckduckgo_search: crawler.arun reports failure; return []
DdgFetchFail ==
    /\ pc = "ddg_arun"
    /\ fetches' = Append(fetches, Fetch("resolver", FALSE))
    /\ links' = <<>>
    /\ sessions' = AExit(sessions, CurSession)
    /\ pc' = "sc_check"
    /\ UNCHANGED <<opened, cssRuns, items, idx, acc, extractCalls, result,
                   extRet, info, exc, stdout, exitStatus, linkIn, linkOut>>

\* duckduckgo_search: crawler.arun succeeds; the CSS extraction rule is run
\* on the page and yields items; links = []
DdgFetchOk ==
    /\ pc = "ddg_arun"
    /\ fetches' = Append(fetches, Fetch("resolver", TRUE))
    /\ cssRuns' = cssRuns + 1
    /\ items' \in SeqsUpTo(RunItems, MaxItems)
    /\ idx' = 1
    /\ acc' = <<>>
    /\ pc' = "ddg_loop"
    /\ UNCHANGED <<sessions, opened, links, extractCalls, result, extRet, info,
                   exc, stdout, exitStatus, linkIn, linkOut>>

\* `if not link` testing only for a missing link
SkipsMissingOnly(link) == link.isNone

\* `if not link: continue`
Skips(link) == ~Truthy(link)

\* the body of `for item in items` for the link of one item: skip it, raise,
\* or append the normalized link
LoopBody(link) ==
    IF Skips(link) THEN [skip |-> TRUE, raised |-> FALSE, link |-> <<>>]
    ELSE [skip |-> FALSE, raised |-> NormalizeLink(link.val).raised,
          link |-> NormalizeLink(link.val).link]

\* duckduckgo_search: one iteration of `for item in items`, with the outcome
\* b of its body; a ValueError leaves the `async with` block and the task
LoopEffect(b) ==
    IF b.skip
    THEN /\ idx' = idx + 1
         /\ UNCHANGED <<pc, acc, sessions, exc, items>>
    ELSE IF b.raised
    THEN /\ exc' = "ValueError"
         /\ sessions' = AExit(sessions, CurSession)
         /\ pc' = "raised"
         /\ items' = <<>>
         /\ idx' = 0
         /\ acc' = <<>>
    ELSE /\ acc' = Append(acc, b.link)
         /\ idx' = idx + 1
         /\ UNCHANGED <<pc, sessions, exc, items>>

DdgLoopStep ==
    /\ pc = "ddg_loop"
    /\ idx <= Len(items)
    /\ LoopEffect(LoopBody(GetLink(items[idx])))
    /\ UNCHANGED <<opened, fetches, cssRuns, links, extractCalls, result,
                   extRet, info, stdout, exitStatus, linkIn, linkOut>>

\* duckduckgo_search: the loop is over; return links (the locals of the call
\* are gone with its frame)
DdgReturn ==
    /\ pc = "ddg_loop"
    /\ idx > Len(items)
    /\ links' = acc
    /\ sessions' = AExit(sessions, CurSession)
    /\ pc' = "sc_check"
    /\ items' = <<>>
    /\ idx' = 0
    /\ acc' = <<>>
    /\ UNCHANGED <<opened, fetches, cssRuns, extractCalls, result, extRet, info,
                   exc, stdout, exitStatus, linkIn, linkOut>>

\* search_company falling back to the extractor when there is no link
ScNoLinksFallback ==
    /\ pc = "sc_check"
    /\ links = <<>>
    /\ extractCalls' = Append(extractCalls, <<>>)
    /\ opened' = Append(opened, "extractor")
    /\ sessions' = sessions \cup {Len(opened) + 1}
    /\ pc' = "ext_arun"
    /\ UNCHANGED <<fetches, cssRuns, items, idx, acc, links, result, extRet,
                   info, exc, stdout, exitStatus, linkIn, linkOut>>

\* search_company: `if not links: return {}`
ScNoLinks ==
    /\ pc = "sc_check"
    /\ links = <<>>
    /\ info' = EmptyDict
    /\ pc' = "print"
    /\ UNCHANGED <<sessions, opened, fetches, cssRuns, items, idx, acc, links,
                   extractCalls, result, extRet, exc, stdout, exitStatus,
                   linkIn, linkOut>>

\* the last link
LastLink(ls) == ls[Len(ls)]

\* links[0]
FirstLink(ls) == ls[1]

\* search_company: extract_legal_info(links[0]) is called, up to the entry
\* of its `async with`: the extractor's session is opened
ScExtract ==
    /\ pc = "sc_check"
    /\ links # <<>>
    /\ extractCalls' = Append(extractCalls, FirstLink(links))
    /\ opened' = Append(opened, "extractor")
    /\ sessions' = sessions \cup {Len(opened) + 1}
    /\ pc' = "ext_arun"
    /\ UNCHANGED <<fetches, cssRuns, items, idx, acc, links, result, extRet,
                   info, exc, stdout, exitStatus, linkIn, linkOut>>

\* extract_legal_info: crawler.arun returns its result
ExtFetch ==
    /\ pc = "ext_arun"
    /\ \E ok \in BOOLEAN, c \in Contents :
          /\ result' = [success |-> ok, content |-> c]
          /\ fetches' = Append(fetches, Fetch("extractor", ok))
    /\ pc' = "ext_parse"
    /\ UNCHANGED <<sessions, opened, cssRuns, items, idx, acc, links,
                   extractCalls, extRet, info, exc, stdout, exitStatus,
                   linkIn, linkOut>>

\* the last element of a list, the value itself otherwise
SelectLast(val) ==
    IF val.t = "list" /\ val.v # <<>> THEN val.v[Len(val.v)] ELSE val

\* `if isinstance(info, list) and info: return info[0]` / `return info`
SelectInfo(val) ==
    IF val.t = "list" /\ val.v # <<>> THEN val.v[1] ELSE val

\* `result.success and result.extracted_content`
Usable(res) == res.success /\ Truthy(res.content)

\* json.loads done: JSONDecodeError, or the value extract_legal_info returns
Decoded(r) ==
    IF r.ok THEN [raised |-> FALSE, val |-> SelectInfo(r.val)]
    ELSE [raised |-> TRUE, val |-> JNull]

\* the body of the `async with` of extract_legal_info after the fetch, and
\* the `return {}` that follows it
ExtractOutcome(res) ==
    IF Usable(res) THEN Decoded(Loads(res.content.val))
    ELSE [raised |-> FALSE, val |-> EmptyDict]

\* `return await extract_legal_info(...)`, `info = await search_company(...)`
PassedUp(val) == val

\* extract_legal_info ends with outcome o: the exception leaves the task, or
\* the value returned goes through search_company to main
ExtEffect(o) ==
    IF o.raised
    THEN /\ exc' = "JSONDecodeError"
         /\ pc' = "raised"
         /\ UNCHANGED <<extRet, info>>
    ELSE /\ extRet' = o.val
         /\ info' = PassedUp(o.val)
         /\ pc' = "print"
         /\ UNCHANGED exc

\* extract_legal_info after the fetch; the session is released on each way
\* out of the `async with` block
ExtFinish ==
    /\ pc = "ext_parse"
    /\ sessions' = AExit(sessions, CurSession)
    /\ ExtEffect(ExtractOutcome(result))
    /\ UNCHANGED <<opened, fetches, cssRuns, items, idx, acc, links,
                   extractCalls, result, stdout, exitStatus, linkIn, linkOut>>

\* main: print(json.dumps(info, indent=2))
MainPrint ==
    /\ pc = "print"
    /\ stdout' = Append(stdout, Dumps(info))
    /\ pc' = "finish"
    /\ UNCHANGED <<sessions, opened, fetches, cssRuns, items, idx, acc, links,
                   extractCalls, result, extRet, info, exc, exitStatus,
                   linkIn, linkOut>>

\* asyncio.run returns and the interpreter exits
ExitOk ==
    /\ pc = "finish"
    /\ exitStatus' = "0"
    /\ pc' = "exited"
    /\ UNCHANGED <<sessions, opened, fetches, cssRuns, items, idx, acc, links,
                   extractCalls, result, extRet, info, exc, stdout,
                   linkIn, linkOut>>

\* the exception leaves search_company, main and asyncio.run uncaught: the
\* interpreter prints a traceback to standard error and exits with status 1
Crash ==
    /\ pc = "raised"
    /\ exitStatus' = "1"
    /\ pc' = "exited"
    /\ UNCHANGED <<sessions, opened, fetches, cssRuns, items, idx, acc, links,
                   extractCalls, result, extRet, info, exc, stdout,
                   linkIn, linkOut>>

Next ==
    \/ Start
    \/ DdgFetchFail
    \/ DdgFetchOk
    \/ DdgLoopStep
    \/ DdgReturn
    \/ ScNoLinks
    \/ ScExtract
    \/ ExtFetch
    \/ ExtFinish
    \/ MainPrint
    \/ ExitOk
    \/ Crash

Spec == Init /\ [][Next]_vars

-----------------------------------------------------------------------------
(* The link normalization on its own, over all enumerated links *)

NormInit ==
    /\ pc = "norm"
    /\ sessions = {}
    /\ opened = <<>>
    /\ fetches = <<>>
    /\ cssRuns = 0
    /\ items = <<>>
    /\ idx = 0
    /\ acc = <<>>
    /\ links = <<>>
    /\ extractCalls = <<>>
    /\ result = NoResult
    /\ extRet = Unset
    /\ info = Unset
    /\ exc = "none"
    /\ stdout = <<>>
    /\ exitStatus = "running"
    /\ linkIn \in AllLinks
    /\ linkOut = NoOut

\* the body of the loop of duckduckgo_search applied to the link linkIn
NormApply ==
    /\ pc = "norm"
    /\ linkOut' = NormalizeLink(linkIn)
    /\ pc' = "normed"
    /\ UNCHANGED <<sessions, opened, fetches, cssRuns, items, idx, acc, links,
                   extractCalls, result, extRet, info, exc, stdout, exitStatus,
                   linkIn>>

NormNext == NormApply

NormSpec == NormInit /\ [][NormNext]_vars

-----------------------------------------------------------------------------
(* Properties *)

\* duckduckgo_search has returned (its ValueError is the only way it raises)
ResolverReturned ==
    /\ pc \in {"sc_check", "ext_arun", "ext_parse", "print", "finish",
               "raised", "exited"}
    /\ exc # "ValueError"

\* the search fetch reported failure
ResolverFailed == fetches # <<>> /\ ~fetches[1].success

\* extract_legal_info was called and has returned a value
ExtractorReturned ==
    /\ pc \in {"print", "finish", "exited"}
    /\ extractCalls # <<>>
    /\ exc = "none"

\* the extractor's fetch succeeded and its extracted content decodes
ContentDecodes ==
    /\ result.success
    /\ Truthy(result.content)
    /\ Loads(result.content.val).ok

\* C1: when the resolver returns no link, search_company returns {} and
\* extract_legal_info is never called: no call is recorded, the task never
\* enters the extractor, and the value handed to main is the empty mapping.
C1_NoLinksNoExtraction ==
    (ResolverReturned /\ links = <<>>) =>
        /\ extractCalls = <<>>
        /\ pc \notin {"ext_arun", "ext_parse"}
        /\ Len(opened) = 1
        /\ (pc \in {"print", "finish", "exited"} => info = EmptyDict)

\* the page was fetched and held result entries, none with a link; the run
\* ended with {} and without a call of the extractor
C1_Witness ==
    /\ pc = "exited"
    /\ exitStatus = "0"
    /\ fetches # <<>>
    /\ fetches[1].success
    /\ cssRuns = 1
    /\ links = <<>>
    /\ extractCalls = <<>>
    /\ info = EmptyDict

\* C2: when the resolver returns links, extract_legal_info is called exactly
\* once, with the first of them, and what it returns is what search_company
\* returns; no other link is tried, whatever the first one yields.
C2_FirstLinkOnly ==
    (ResolverReturned /\ links # <<>>) =>
        /\ Len(extractCalls) <= 1
        /\ (pc # "sc_check" => extractCalls = <<links[1]>>)
        /\ (pc \in {"print", "finish", "exited"} /\ exc = "none" =>
                extRet # Unset /\ info = extRet)

\* two different links, the first yielding the empty record: the run ends
\* with that record and one call, on the first link
C2_Witness ==
    /\ pc = "exited"
    /\ exc = "none"
    /\ Len(links) >= 2
    /\ links[1] # links[2]
    /\ extractCalls = <<links[1]>>
    /\ extRet = EmptyDict
    /\ info = EmptyDict

\* C3 (as claimed): when the extractor's fetch succeeds and the content
\* decodes to the empty list, extract_legal_info returns the empty mapping.
C3_EmptyListGivesEmptyMapping ==
    (ExtractorReturned /\ ContentDecodes
        /\ Loads(result.content.val).val = JList(<<>>)) =>
        extRet = EmptyDict

\* extract_legal_info was called and has been left, by return or by exception
ExtractorLeft ==
    /\ pc \in {"print", "finish", "raised", "exited"}
    /\ extractCalls # <<>>

\* C4 (as claimed): each failure of a run (search fetch failure, no links,
\* extractor fetch failure, no extracted content, extracted content that
\* does not decode) ends in the empty result, [] from the resolver, {} from
\* the extractor and from search_company, and never in an exception.
C4_FailuresBecomeEmptyResults ==
    /\ (ResolverFailed => exc = "none")
    /\ (ResolverFailed /\ ResolverReturned => links = <<>>)
    /\ (ResolverReturned /\ links = <<>> /\ pc \in {"print", "finish", "exited"} =>
            info = EmptyDict)
    /\ (ExtractorLeft /\ ~Usable(result) =>
            exc = "none" /\ extRet = EmptyDict /\ info = EmptyDict)
    /\ (ExtractorLeft /\ Usable(result) /\ ~Loads(result.content.val).ok =>
            exc = "none" /\ extRet = EmptyDict /\ info = EmptyDict)

\* C5: when the search fetch reports failure, duckduckgo_search returns []
\* without raising and without ever running the CSS extraction rule.
C5_FetchFailureGivesNoLinks ==
    ResolverFailed =>
        /\ cssRuns = 0
        /\ items = <<>>
        /\ links = <<>>
        /\ exc = "none"
        /\ pc \notin {"ddg_loop", "raised"}

\* the search fetch failed and the resolver has returned
C5_Witness ==
    /\ ResolverFailed
    /\ pc = "sc_check"
    /\ links = <<>>
    /\ cssRuns = 0

\* C7: a session is open only inside the stage that opened it, each fetch
\* runs in the live session its own stage opened, no two fetches share a
\* session, at most one session is open at a time, and none is open once a
\* stage is left, by return or by exception.
C7_SessionsScopedToStages ==
    /\ Cardinality(sessions) <= 1
    /\ \A s \in sessions : s = Len(opened)
    /\ (pc \in {"ddg_arun", "ddg_loop"} =>
            sessions = {Len(opened)} /\ opened[Len(opened)] = "resolver")
    /\ (pc \in {"ext_arun", "ext_parse"} =>
            sessions = {Len(opened)} /\ opened[Len(opened)] = "extractor")
    /\ (pc \in {"start", "sc_check", "print", "finish", "raised", "exited"} =>
            sessions = {})
    /\ \A i \in 1..Len(fetches) :
            /\ fetches[i].live
            /\ opened[fetches[i].session] = fetches[i].stage
    /\ \A i, j \in 1..Len(fetches) :
            i # j => fetches[i].session # fetches[j].session

\* both stages fetched, the extractor raised inside its `async with` block,
\* and the process has ended with no session open
C7_Witness ==
    /\ pc = "exited"
    /\ exc = "JSONDecodeError"
    /\ Len(opened) = 2
    /\ Len(fetches) = 2
    /\ sessions = {}

\* the printed text is the empty object
PrintedEmptyObject == stdout = << <<"{", "}">> >>

\* C8 (as claimed): the process ends with status 0 having printed exactly one
\* JSON object, which is {} when there was no link, a failed fetch, or no or
\* empty extracted content.
C8_PrintsOneObjectAndExitsZero ==
    pc = "exited" =>
        /\ exitStatus = "0"
        /\ Len(stdout) = 1
        /\ Loads(stdout[1]).ok
        /\ Loads(stdout[1]).val.t = "dict"
        /\ (links = <<>> => PrintedEmptyObject)
        /\ (extractCalls # <<>> /\ ~Usable(result) => PrintedEmptyObject)
        /\ (extractCalls # <<>> /\ ContentDecodes
                /\ Loads(result.content.val).val = JList(<<>>) =>
                PrintedEmptyObject)

\* C9: when the extractor's fetch succeeds and the content decodes to a list
\* that is not empty, extract_legal_info returns the first element of it.
C9_FirstElementOfList ==
    (ExtractorReturned /\ ContentDecodes
        /\ Loads(result.content.val).val.t = "list"
        /\ Loads(result.content.val).val.v # <<>>) =>
        extRet = Loads(result.content.val).val.v[1]

\* a list of two different elements was extracted and the first was returned
C9_Witness ==
    /\ ExtractorReturned
    /\ ContentDecodes
    /\ Loads(result.content.val).val.t = "list"
    /\ Len(Loads(result.content.val).val.v) >= 2
    /\ Loads(result.content.val).val.v[1] # Loads(result.content.val).val.v[2]
    /\ extRet = Loads(result.content.val).val.v[1]

\* the normalized links of the entries of its that hold a link that is not
\* empty, in the order of its
RECURSIVE LinksOf(_)
LinksOf(its) ==
    IF its = <<>> THEN <<>>
    ELSE (IF Head(its).hasLink /\ Head(its).link # <<>>
          THEN <<NormalizeLink(Head(its).link).link>> ELSE <<>>)
         \o LinksOf(Tail(its))

\* C10: on a successful search fetch, what duckduckgo_search returns is the
\* normalized links of the entries with a link that is not empty, in the
\* order of the entries, duplicates kept, never more than there are entries.
C10_LinksInPageOrder ==
    [][(pc = "ddg_loop" /\ pc' = "sc_check") =>
            /\ links' = LinksOf(items)
            /\ Len(links') <= Len(items)]_vars

\* the loop is over three entries: one without a usable link, then the same
\* link twice; both copies were kept
C10_Witness ==
    /\ pc = "ddg_loop"
    /\ idx > Len(items)
    /\ Len(items) = 3
    /\ Len(acc) = 2
    /\ acc[1] = acc[2]
    /\ acc = LinksOf(items)

-----------------------------------------------------------------------------
(* The link normalization, read off the text of the link *)

\* s up to its first c (all of s when c is absent), and what follows that c
BeforeFirst(s, c) ==
    IF Find(s, c, 1) = 0 THEN s ELSE SubSeq(s, 1, Find(s, c, 1) - 1)

AfterFirst(s, c) ==
    IF Find(s, c, 1) = 0 THEN <<>> ELSE SubSeq(s, Find(s, c, 1) + 1, Len(s))

\* the link without its tab, CR and LF characters
Clean(link) == Remove(link, {"\t", "\r", "\n"})

\* the parts of a link "//authority/path?query#fragment"
FragmentOf(link) == AfterFirst(Clean(link), "#")
QueryOf(link) == AfterFirst(BeforeFirst(Clean(link), "#"), "?")
HierOf(link) == BeforeFirst(BeforeFirst(Clean(link), "#"), "?")
AuthorityOf(link) == BeforeFirst(SubSeq(HierOf(link), 3, Len(HierOf(link))), "/")
PathOf(link) ==
    SubSeq(HierOf(link), 3 + Len(AuthorityOf(link)), Len(HierOf(link)))

\* the authority holds one kind of square bracket without the other
Unbalanced(authority) ==
    Contains(authority, "[") # Contains(authority, "]")

\* the path without the ";" that ends it, when that ";" is the first of the
\* last segment (it introduces empty params)
WithoutEmptyParams(path) ==
    IF path # <<>> /\ Find(path, ";", RFind(path, "/")) = Len(path)
    THEN SubSeq(path, 1, Len(path) - 1)
    ELSE path

\* "https:" + link with tab, CR, LF removed and with each ";", "?", "#"
\* that introduces an empty component dropped
Reassembled(link) ==
    https \o <<":", "/", "/">> \o AuthorityOf(link)
    \o WithoutEmptyParams(PathOf(link))
    \o (IF QueryOf(link) # <<>> THEN <<"?">> \o QueryOf(link) ELSE <<>>)
    \o (IF FragmentOf(link) # <<>> THEN <<"#">> \o FragmentOf(link) ELSE <<>>)

\* the link holds no tab, CR, LF and no delimiter of an empty component
NothingToDrop(link) ==
    /\ Clean(link) = link
    /\ (Contains(link, "#") => FragmentOf(link) # <<>>)
    /\ (Contains(BeforeFirst(link, "#"), "?") => QueryOf(link) # <<>>)
    /\ WithoutEmptyParams(PathOf(link)) = PathOf(link)

\* the text of a query field's name or value, decoded as a form field
FormDecoded(s) == Unquote(Replace(s, "+", " "))

\* a query field name=value whose name decodes to uddg and whose value is
\* not blank
IsTarget(f) ==
    /\ Contains(f, "=")
    /\ AfterFirst(f, "=") # <<>>
    /\ FormDecoded(BeforeFirst(f, "=")) = uddg

QueryFields(link) == Split(QueryOf(link), "&")

HasTarget(link) ==
    \E i \in 1..Len(QueryFields(link)) : IsTarget(QueryFields(link)[i])

\* the decoded value of the first such field
Target(link) ==
    FormDecoded(AfterFirst(
        QueryFields(link)[CHOOSE i \in 1..Len(QueryFields(link)) :
            /\ IsTarget(QueryFields(link)[i])
            /\ \A j \in 1..(i - 1) : ~IsTarget(QueryFields(link)[j])], "="))

\* C6 (as claimed): every link the normalization yields is one of three: for
\* a link that begins with // and carries a uddg parameter that is not blank,
\* the decoded value of that parameter; for any other link that begins with
\* //, "https:" + link; for a link that does not begin with //, the link.
C6_ThreeOutcomes ==
    (pc = "normed" /\ ~linkOut.raised) =>
        linkOut.link =
            IF ~StartsWith(linkIn, DoubleSlash) THEN linkIn
            ELSE IF HasTarget(linkIn) THEN Target(linkIn)
            ELSE https \o <<":">> \o linkIn

\* C6 (amended): a link that does not begin with // is unchanged; a link that
\* begins with // and whose authority holds an unmatched square bracket makes
\* urlparse raise ValueError; any other link that begins with // becomes the
\* decoded value of its first uddg parameter that is not blank, or, without
\* one, the URL geturl() puts together again: "https:" + link with tab, CR,
\* LF removed and each ";", "?", "#" of an empty component dropped, which is
\* "https:" + link itself when there is nothing of that kind to drop.
C6_Outcomes ==
    pc = "normed" =>
        IF ~StartsWith(linkIn, DoubleSlash)
        THEN ~linkOut.raised /\ linkOut.link = linkIn
        ELSE IF Unbalanced(AuthorityOf(linkIn))
        THEN linkOut.raised
        ELSE /\ ~linkOut.raised
             /\ (HasTarget(linkIn) => linkOut.link = Target(linkIn))
             /\ (~HasTarget(linkIn) /\ ~StartsWith(PathOf(linkIn), DoubleSlash) =>
                    /\ linkOut.link = Reassembled(linkIn)
                    /\ (NothingToDrop(linkIn) =>
                            linkOut.link = https \o <<":">> \o linkIn))

\* a redirect link without target, its query empty: the "?" is dropped
C6_Witness ==
    /\ pc = "normed"
    /\ linkIn = BareRedirect
    /\ ~linkOut.raised
    /\ linkOut.link = https \o <<":", "/", "/", "d", "/", "l">>

====
